---- MODULE Spec2Model ----
(***************************************************************************)
(* A model of src/src/app.ts: the argument tokenizer (readNextArg), the    *)
(* flag dispatch loop (useArgsStore), the message and embed flag tables of *)
(* parseMessageAdvancedArgs, and the ssend / sedit command handlers with   *)
(* the error reporting of the messageCreate listener.                      *)
(*                                                                         *)
(* Text is modelled by TLA+ strings; a character is a string of length 1.  *)
(* An optional value (undefined | v) is the sequence <<>> or <<v>>.        *)
(***************************************************************************)
EXTENDS Integers, Sequences, FiniteSets, TLC

\* ------------------------------------------------------------------------
\* Bounds of the model
\* ------------------------------------------------------------------------

\* longest text handed to the tokenizer in the tokenizer specification
MaxLen == 4

\* most flag groups in the argument text of a command, after its opening
MaxItems == 2

\* most flag groups after a channel mention or an unusual message reference
MaxHeadItems == 1

\* ------------------------------------------------------------------------
\* JavaScript string primitives
\* ------------------------------------------------------------------------

\* content[i], 0-based; "" past the end
CharAt(s, i) == IF i >= 0 /\ i < Len(s) THEN SubSeq(s, i + 1, i + 1) ELSE ""

\* String.prototype.substr(start), 0-based, start >= 0
Substr(s, start) == IF start >= Len(s) THEN "" ELSE SubSeq(s, start + 1, Len(s))

\* s.startsWith(p)
StartsWith(s, p) == Len(s) >= Len(p) /\ SubSeq(s, 1, Len(p)) = p

\* the white space String.prototype.trim() removes (of the characters modelled)
WhiteSpace == {" ", "\t", "\n", "\r"}

RECURSIVE TrimStart(_)
TrimStart(s) ==
    IF s # "" /\ Head(s) \in WhiteSpace THEN TrimStart(Tail(s)) ELSE s

RECURSIVE TrimEnd(_)
TrimEnd(s) ==
    IF s # "" /\ CharAt(s, Len(s) - 1) \in WhiteSpace
    THEN TrimEnd(SubSeq(s, 1, Len(s) - 1))
    ELSE s

\* String.prototype.trim()
Trim(s) == TrimEnd(TrimStart(s))

\* the characters \w matches
WordChars ==
    { "a", "b", "c", "d", "e", "f", "g", "h", "i", "j", "k", "l", "m",
      "n", "o", "p", "q", "r", "s", "t", "u", "v", "w", "x", "y", "z",
      "A", "B", "C", "D", "E", "F", "G", "H", "I", "J", "K", "L", "M",
      "N", "O", "P", "Q", "R", "S", "T", "U", "V", "W", "X", "Y", "Z",
      "0", "1", "2", "3", "4", "5", "6", "7", "8", "9", "_" }

\* the first match of /[^<seps>]+/ in s: <<start, text>>, or <<>> when none
RECURSIVE RunFrom(_, _, _)
RunFrom(s, i, seps) ==
    IF i < Len(s) /\ CharAt(s, i) \notin seps
    THEN CharAt(s, i) \o RunFrom(s, i + 1, seps)
    ELSE ""

RECURSIVE FirstRunStart(_, _, _)
FirstRunStart(s, i, seps) ==
    IF i >= Len(s) THEN -1
    ELSE IF CharAt(s, i) \notin seps THEN i
    ELSE FirstRunStart(s, i + 1, seps)

FirstRun(s, seps) ==
    LET st == FirstRunStart(s, 0, seps)
    IN  IF st < 0 THEN <<>> ELSE <<RunFrom(s, st, seps)>>

\* ------------------------------------------------------------------------
\* Errors
\* ------------------------------------------------------------------------

\* new CommandError(message): a user-facing error carrying `response`
CommandError(message) == [kind |-> "CommandError", response |-> message]

\* any other thrown value (TypeError, RangeError, a rejected platform call);
\* `response` holds its string form
OtherError(text) == [kind |-> "Error", response |-> text]

\* ------------------------------------------------------------------------
\* Tokenizer
\* ------------------------------------------------------------------------

\* an escape table with no entries: every escaped character stands for itself
UnescapeNothing(char) == char

\* escapedChars[char], or the character itself when the table has no entry
Unescape(char) ==
    CASE char = "r" -> "\r"
      [] char = "n" -> "\n"
      [] char = "t" -> "\t"
      [] char = "\\" -> "\\"
      [] OTHER -> char

\* the for loop of the quoted branch, from index i: the characters pushed and
\* the number of iterations counted in `len`
RECURSIVE ScanQuoted(_, _, _, _, _)
ScanQuoted(content, i, len, escaped, chars) ==
    IF i >= Len(content) THEN [chars |-> chars, len |-> len]
    ELSE LET char == CharAt(content, i) IN
         IF escaped
         THEN ScanQuoted(content, i + 1, len + 1, FALSE, chars \o Unescape(char))
         ELSE IF char = "\\"
              THEN ScanQuoted(content, i + 1, len + 1, TRUE, chars)
              ELSE IF char = "\""
                   THEN [chars |-> chars, len |-> len + 1]
                   ELSE ScanQuoted(content, i + 1, len + 1, FALSE, chars \o char)

\* where the remainder of a quoted argument starts, for a scan that counted len
QuotedRemainderStart(len) == len + 2

\* a pattern that leaves the line feed out: /[^ \r]+/
ArgSeparatorsNoLineFeed == {" ", "\r"}

\* the separators of a bare argument: /[^ \r\n]+/
ArgSeparators == {" ", "\r", "\n"}

\* readNextArg(content): [ok, arg, remainder], or [ok |-> FALSE, error]
readNextArg(raw) ==
    LET content == Trim(raw) IN
    IF content = ""
    THEN [ok |-> FALSE, error |-> CommandError("Not enough arguments")]
    ELSE IF StartsWith(content, "\"")
    THEN LET scan == ScanQuoted(content, 1, 0, FALSE, "")
         IN  [ok |-> TRUE, arg |-> scan.chars,
              remainder |-> Substr(content, QuotedRemainderStart(scan.len))]
    ELSE LET match == FirstRun(content, ArgSeparators)
             arg == IF match # <<>> THEN match[1] ELSE content
         IN  [ok |-> TRUE, arg |-> arg,
              remainder |-> Trim(Substr(content, Len(arg) + 1))]

\* the line breaks of /[^\r\n]+/m
LineBreaks == {"\r", "\n"}

\* readNextLine(content): [ok, line, remainder], or [ok |-> FALSE, error].
\* The match is the first run without a line break, wherever it starts; the
\* remainder is cut at line.length + 1 counted from the start of content.
readNextLine(content) ==
    IF content = ""
    THEN [ok |-> FALSE, error |-> CommandError("Not enough lines")]
    ELSE LET match == FirstRun(content, LineBreaks)
             line == IF match # <<>> THEN match[1] ELSE content
         IN  [ok |-> TRUE, line |-> line,
              remainder |-> Trim(Substr(content, Len(line) + 1))]

\* ------------------------------------------------------------------------
\* State
\* ------------------------------------------------------------------------

VARIABLES
    cmd,        \* the command of the invocation: "ssend" | "sedit" | "readNextArg"
    text,       \* the `content` the handler (or the tokenizer) is given
    stored,     \* the message the platform holds under StoredMessageId
    pc,         \* "handler" | "parse" | "deliver" | "catch" | "done"
    channel,    \* the channel the handler will send to: "origin" | "other" | "null"
    original,   \* <<>> (compose) or <<the message being edited>>
    remainder,  \* the cursor of parseMessageAdvancedArgs
    content,    \* the text content composed so far
    options,    \* [files, embeds]: the options composed so far
    alreadySet, \* the labels claimed so far
    depth,      \* running useArgsStore loops: 1 message table, 2 embed table
    err,        \* <<>> or <<the error thrown>>
    outbound,   \* the send / edit calls made on the platform, in order
    iter,       \* history: what the last loop iteration saw and did
    trail,      \* history: the actions dispatched so far, in order
    tok,        \* the tokenizer's result in the tokenizer specifications
    lookup,     \* history: the outcome of the handler's external lookups
    event,      \* the message event the listener was given
    gate,       \* the listener before the handler: "pending" | "ignored" | "failed" | "admitted"
    peer        \* a second invocation running at the same time, <<>> when none

vars == <<cmd, text, stored, pc, channel, original, remainder, content, options,
          alreadySet, depth, err, outbound, iter, trail, tok, lookup, event,
          gate, peer>>

parseVars == <<remainder, content, options, alreadySet, depth>>

\* ------------------------------------------------------------------------
\* Composition state of one parse
\* ------------------------------------------------------------------------

\* let embed: APIEmbed = {}
EmptyEmbed ==
    [title |-> <<>>, description |-> <<>>, url |-> <<>>, color |-> <<>>,
     timestamp |-> <<>>, footer |-> <<>>, author |-> <<>>]

\* let options = {}
EmptyOptions == [files |-> <<>>, embeds |-> <<>>]

\* the closure state of parseMessageAdvancedArgs, as a handler reads and
\* writes it; `error` is <<>> until something is thrown
Closure(r, c, o, a) ==
    [remainder |-> r, content |-> c, options |-> o, alreadySet |-> a,
     error |-> <<>>]

Throw(st, e) == [st EXCEPT !.error = <<e>>]

\* options.files ?? []
Files(o) == IF o.files = <<>> THEN <<>> ELSE o.files[1]

\* the invoking user: message.member?.nickname ?? message.author.username,
\* and message.author.displayAvatarURL({ extension: 'png' })
AuthorDisplayName == "nick"
AuthorAvatarURL == "avatar.png"

\* checkSet without `alreadySet[name] = true`: the claim is not recorded
checkSetForgets(st, name) ==
    IF name \in st.alreadySet
    THEN Throw(st, CommandError(name \o " set more than once"))
    ELSE st

\* checkSet(name)
checkSet(st, name) ==
    IF name \in st.alreadySet
    THEN Throw(st, CommandError(name \o " set more than once"))
    ELSE [st EXCEPT !.alreadySet = @ \cup {name}]

\* setContent(c)
setContent(st, c) ==
    LET s1 == checkSet(st, "Content")
    IN  IF s1.error # <<>> THEN s1 ELSE [s1 EXCEPT !.content = c]

\* ({ remainder, arg } = readNextArg(remainder)): the state after the read
\* (the cursor advanced, or the error thrown) and the argument read
Read(st) ==
    LET r == readNextArg(st.remainder)
    IN  IF ~r.ok THEN [st |-> Throw(st, r.error), arg |-> ""]
        ELSE [st |-> [st EXCEPT !.remainder = r.remainder], arg |-> r.arg]

\* the read threw
Thrown(rd) == rd.st.error # <<>>

\* ------------------------------------------------------------------------
\* Message flag table (argsStore)
\* ------------------------------------------------------------------------

\* argsStore.insert
Insert(st, orig) ==
    [st EXCEPT !.content = orig.content,
               !.options = [files |-> <<>>, embeds |-> <<orig.embeds>>]]

\* argsStore.content
Content(st) ==
    LET Use(s, txt) == setContent(s, txt)
    IN  (LET rd == Read(st) IN IF Thrown(rd) THEN rd.st ELSE Use(rd.st, rd.arg))

\* argsStore.attttachment
Attttachment(st) ==
    LET Use(s, url) ==
            [s EXCEPT !.options.files = <<Append(Files(s.options), url)>>]
    IN  (LET rd == Read(st) IN IF Thrown(rd) THEN rd.st ELSE Use(rd.st, rd.arg))

\* argsStore.rest without `remainder = ''`: the cursor is left as it was
RestKeepsCursor(st) == setContent(st, st.remainder)

\* argsStore.rest
Rest(st) ==
    LET s1 == setContent(st, st.remainder)
    IN  IF s1.error # <<>> THEN s1 ELSE [s1 EXCEPT !.remainder = ""]

\* an embed handler that always starts from {}
EmbedSeedEmpty(o) == EmptyEmbed

\* argsStore.embed, up to the call of useArgsStore(embedArgsStore):
\* jsonDecode(options.embeds?.[0]) ?? {} becomes the only embed
EmbedSeed(o) ==
    IF o.embeds # <<>> /\ Len(o.embeds[1]) > 0 THEN o.embeds[1][1] ELSE EmptyEmbed

EmbedEnter(st) ==
    [st EXCEPT !.options.embeds = << <<EmbedSeed(st.options)>> >>]

\* the own keys of argsStore and the handler each runs; ins and insert exist
\* only when an original message is given
MessageHandler(name, orig) ==
    CASE name \in {"ins", "insert"} /\ orig # <<>> -> "insert"
      [] name \in {"c", "txt", "text", "content"} -> "content"
      [] name \in {"f", "att", "attttachment"} -> "attttachment"
      [] name = "rest" -> "rest"
      [] name = "embed" -> "embed"
      [] OTHER -> ""

\* ------------------------------------------------------------------------
\* Embed flag table (embedArgsStore)
\* ------------------------------------------------------------------------

\* the embed the nested table edits: options.embeds[0]
TheEmbed(st) == st.options.embeds[1][1]

SetEmbed(st, e) == [st EXCEPT !.options.embeds = << <<e>> >>]

\* setEmbedContent claiming the label of the message content
setEmbedContentAsContent(st, c) ==
    LET s1 == checkSet(st, "Content")
    IN  IF s1.error # <<>> THEN s1
        ELSE SetEmbed(s1, [TheEmbed(s1) EXCEPT !.description = <<c>>])

\* setEmbedContent(c)
setEmbedContent(st, c) ==
    LET s1 == checkSet(st, "Embed content")
    IN  IF s1.error # <<>> THEN s1
        ELSE SetEmbed(s1, [TheEmbed(s1) EXCEPT !.description = <<c>>])

\* embedArgsStore.title
Title(st) ==
    LET s1 == checkSet(st, "Embed title")
        Use(s, title) == SetEmbed(s, [TheEmbed(s) EXCEPT !.title = <<title>>])
    IN  IF s1.error # <<>> THEN s1 ELSE (LET rd == Read(s1) IN IF Thrown(rd) THEN rd.st ELSE Use(rd.st, rd.arg))

\* embedArgsStore.footer
Footer(st) ==
    LET s1 == checkSet(st, "Embed footer")
        Use(s, footer) ==
            LET e == TheEmbed(s) IN
            IF e.footer = <<>>
            THEN SetEmbed(s, [e EXCEPT !.footer = <<[text |-> footer, icon_url |-> <<>>]>>])
            ELSE SetEmbed(s, [e EXCEPT !.footer = <<[e.footer[1] EXCEPT !.text = footer]>>])
    IN  IF s1.error # <<>> THEN s1 ELSE (LET rd == Read(s1) IN IF Thrown(rd) THEN rd.st ELSE Use(rd.st, rd.arg))

\* embedArgsStore.footerme
Footerme(st) ==
    LET s1 == checkSet(st, "Embed footer")
        s2 == checkSet(s1, "Embed footer icon")
    IN  IF s1.error # <<>> THEN s1
        ELSE IF s2.error # <<>> THEN s2
        ELSE SetEmbed(s2, [TheEmbed(s2) EXCEPT !.footer =
                 <<[text |-> AuthorDisplayName, icon_url |-> <<AuthorAvatarURL>>]>>])

\* embedArgsStore.footericon without its `if (!embed.footer) throw`
FootericonUnordered(st) ==
    LET s1 == checkSet(st, "Embed footer icon")
        Use(s, url) ==
            LET e == TheEmbed(s) IN
            IF e.footer = <<>>
            THEN SetEmbed(s, [e EXCEPT !.footer = <<[text |-> "", icon_url |-> <<url>>]>>])
            ELSE SetEmbed(s, [e EXCEPT !.footer = <<[e.footer[1] EXCEPT !.icon_url = <<url>>]>>])
    IN  IF s1.error # <<>> THEN s1 ELSE (LET rd == Read(s1) IN IF Thrown(rd) THEN rd.st ELSE Use(rd.st, rd.arg))

\* embedArgsStore.footericon
Footericon(st) ==
    LET s1 == checkSet(st, "Embed footer icon")
        Use(s, url) ==
            LET e == TheEmbed(s) IN
            IF e.footer = <<>>
            THEN SetEmbed(s, [e EXCEPT !.footer = <<[text |-> "", icon_url |-> <<url>>]>>])
            ELSE SetEmbed(s, [e EXCEPT !.footer = <<[e.footer[1] EXCEPT !.icon_url = <<url>>]>>])
    IN  IF s1.error # <<>> THEN s1
        ELSE IF TheEmbed(s1).footer = <<>>
        THEN Throw(s1, CommandError("Footer text needs to be set before the footer icon"))
        ELSE (LET rd == Read(s1) IN IF Thrown(rd) THEN rd.st ELSE Use(rd.st, rd.arg))

\* embedArgsStore.author
Author(st) ==
    LET s1 == checkSet(st, "Embed author")
        Use(s, author) ==
            LET e == TheEmbed(s) IN
            IF e.author = <<>>
            THEN SetEmbed(s, [e EXCEPT !.author = <<[name |-> author, icon_url |-> <<>>]>>])
            ELSE SetEmbed(s, [e EXCEPT !.author = <<[e.author[1] EXCEPT !.name = author]>>])
    IN  IF s1.error # <<>> THEN s1 ELSE (LET rd == Read(s1) IN IF Thrown(rd) THEN rd.st ELSE Use(rd.st, rd.arg))

\* embedArgsStore.authorme
Authorme(st) ==
    LET s1 == checkSet(st, "Embed author")
        s2 == checkSet(s1, "Embed author icon")
    IN  IF s1.error # <<>> THEN s1
        ELSE IF s2.error # <<>> THEN s2
        ELSE SetEmbed(s2, [TheEmbed(s2) EXCEPT !.author =
                 <<[name |-> AuthorDisplayName, icon_url |-> <<AuthorAvatarURL>>]>>])

\* embedArgsStore.authoricon
Authoricon(st) ==
    LET s1 == checkSet(st, "Embed author icon")
        Use(s, url) ==
            LET e == TheEmbed(s) IN
            IF e.author = <<>>
            THEN SetEmbed(s, [e EXCEPT !.author = <<[name |-> "", icon_url |-> <<url>>]>>])
            ELSE SetEmbed(s, [e EXCEPT !.author = <<[e.author[1] EXCEPT !.icon_url = <<url>>]>>])
    IN  IF s1.error # <<>> THEN s1
        ELSE IF TheEmbed(s1).author = <<>>
        THEN Throw(s1, CommandError("author text needs to be set before the author icon"))
        ELSE (LET rd == Read(s1) IN IF Thrown(rd) THEN rd.st ELSE Use(rd.st, rd.arg))

\* String.prototype.toLowerCase(), on the letters A-Z
UpperLetters == "ABCDEFGHIJKLMNOPQRSTUVWXYZ"
LowerLetters == "abcdefghijklmnopqrstuvwxyz"

\* s.indexOf(c) for a character c, 0-based, from index i; -1 when absent
RECURSIVE IndexOfFrom(_, _, _)
IndexOfFrom(s, c, i) ==
    IF i >= Len(s) THEN -1
    ELSE IF CharAt(s, i) = c THEN i
    ELSE IndexOfFrom(s, c, i + 1)

\* s.lastIndexOf(c) for a character c, 0-based, searching down from index i
RECURSIVE LastIndexOfFrom(_, _, _)
LastIndexOfFrom(s, c, i) ==
    IF i < 0 THEN -1
    ELSE IF CharAt(s, i) = c THEN i
    ELSE LastIndexOfFrom(s, c, i - 1)

RECURSIVE ToLowerCase(_)
ToLowerCase(s) ==
    IF s = "" THEN ""
    ELSE LET i == IndexOfFrom(UpperLetters, Head(s), 0)
         IN  (IF i < 0 THEN Head(s) ELSE CharAt(LowerLetters, i))
             \o ToLowerCase(Tail(s))

\* the instant new Date() yields while the command runs, as a calendar year
Now == 2026

DecimalDigits == "0123456789"

\* the number a run of decimal digits denotes
RECURSIVE DecimalValue(_, _)
DecimalValue(s, acc) ==
    IF s = "" THEN acc
    ELSE DecimalValue(Tail(s), acc * 10 + IndexOfFrom(DecimalDigits, Head(s), 0))

\* new Date(time): <<instant>>, or <<>> for an Invalid Date. Of the formats
\* Date.parse accepts, the year-only ISO form YYYY is modelled (the instant
\* is kept as the year); every other text modelled parses to an Invalid Date.
\* The constructor never throws.
NewDate(time) ==
    IF Len(time) = 4 /\ \A i \in 0..3 : IndexOfFrom(DecimalDigits, CharAt(time, i), 0) >= 0
    THEN <<DecimalValue(time, 0)>>
    ELSE <<>>

\* date.toISOString(): [ok, iso], throwing a RangeError for an Invalid Date
ToISOString(date) ==
    IF date = <<>>
    THEN [ok |-> FALSE, error |-> OtherError("RangeError: Invalid time value")]
    ELSE [ok |-> TRUE, iso |-> ToString(date[1]) \o "-01-01T00:00:00.000Z"]

\* the try block of embedArgsStore.time: nothing in it throws, so its catch
\* (the CommandError "Couldn't parse time") is never entered
TimeToDate(time) ==
    IF ToLowerCase(time) = "now" THEN <<Now>> ELSE NewDate(time)

\* embedArgsStore.time
Time(st) ==
    LET s1 == checkSet(st, "Embed timestamp")
        Use(s, time) ==
            LET iso == ToISOString(TimeToDate(time))
            IN  IF ~iso.ok THEN Throw(s, iso.error)
                ELSE SetEmbed(s, [TheEmbed(s) EXCEPT !.timestamp = <<iso.iso>>])
    IN  IF s1.error # <<>> THEN s1 ELSE (LET rd == Read(s1) IN IF Thrown(rd) THEN rd.st ELSE Use(rd.st, rd.arg))

\* embedArgsStore.content
EmbedContent(st) ==
    LET Use(s, desc) == setEmbedContent(s, desc)
    IN  (LET rd == Read(st) IN IF Thrown(rd) THEN rd.st ELSE Use(rd.st, rd.arg))

\* parseUrl(data): the text between the first "<" and the last ">" when at
\* least one character lies between them (/<(.+)>/), else data
parseUrl(data) ==
    LET i == IndexOfFrom(data, "<", 0)
        j == LastIndexOfFrom(data, ">", Len(data) - 1)
    IN  IF i >= 0 /\ j >= i + 2 THEN SubSeq(data, i + 2, j) ELSE data

\* embedArgsStore.url
Url(st) ==
    LET s1 == checkSet(st, "Embed url")
        Use(s, url) == SetEmbed(s, [TheEmbed(s) EXCEPT !.url = <<parseUrl(url)>>])
    IN  IF s1.error # <<>> THEN s1 ELSE (LET rd == Read(s1) IN IF Thrown(rd) THEN rd.st ELSE Use(rd.st, rd.arg))

HexDigits == "0123456789abcdef"

\* the value of the longest leading run of hex digits of s, and its length
RECURSIVE HexRun(_, _, _)
HexRun(s, acc, n) ==
    LET d == IF s = "" THEN -1 ELSE IndexOfFrom(HexDigits, ToLowerCase(Head(s)), 0)
    IN  IF d < 0 THEN [val |-> acc, len |-> n]
        ELSE HexRun(Tail(s), acc * 16 + d, n + 1)

\* parseInt(col, 16): leading white space, a sign and a 0x prefix are
\* skipped, then the leading hex digits are read; NaN when there are none
parseInt16(col) ==
    LET t == TrimStart(col)
        neg == StartsWith(t, "-")
        u == IF neg \/ StartsWith(t, "+") THEN Tail(t) ELSE t
        v == IF StartsWith(ToLowerCase(u), "0x") THEN Substr(u, 2) ELSE u
        run == HexRun(v, 0, 0)
    IN  IF run.len = 0 THEN [nan |-> TRUE, val |-> 0]
        ELSE [nan |-> FALSE, val |-> IF neg THEN 0 - run.val ELSE run.val]

\* embedArgsStore.color
Color(st) ==
    LET s1 == checkSet(st, "Embed color")
        Use(s, col) == SetEmbed(s, [TheEmbed(s) EXCEPT !.color = <<parseInt16(col)>>])
    IN  IF s1.error # <<>> THEN s1 ELSE (LET rd == Read(s1) IN IF Thrown(rd) THEN rd.st ELSE Use(rd.st, rd.arg))

\* embedArgsStore.rest
EmbedRest(st) ==
    LET s1 == setEmbedContent(st, st.remainder)
    IN  IF s1.error # <<>> THEN s1 ELSE [s1 EXCEPT !.remainder = ""]

\* an embed table that also answers to the attachment flag f, as a url
EmbedHandlerWithF(name) ==
    CASE name \in {"title", "footer", "footerme", "footericon", "author",
                   "authorme", "authoricon", "time", "url", "rest"} -> name
      [] name \in {"c", "txt", "text", "content"} -> "content"
      [] name \in {"col", "color"} -> "color"
      [] name = "f" -> "url"
      [] OTHER -> ""

\* the own keys of embedArgsStore and the handler each runs
EmbedHandler(name) ==
    CASE name \in {"title", "footer", "footerme", "footericon", "author",
                   "authorme", "authoricon", "time", "url", "rest"} -> name
      [] name \in {"c", "txt", "text", "content"} -> "content"
      [] name \in {"col", "color"} -> "color"
      [] OTHER -> ""

\* ------------------------------------------------------------------------
\* Flag dispatch (useArgsStore)
\* ------------------------------------------------------------------------

\* remainder.match(/^-\w/)
FlagShaped(r) == Len(r) >= 2 /\ CharAt(r, 0) = "-" /\ CharAt(r, 1) \in WordChars

\* Both tables are object literals, so store[nextArg] also finds what they
\* inherit from Object.prototype. These inherited members are functions that
\* return normally when called without arguments ...
InheritedCallable ==
    { "constructor", "toString", "toLocaleString", "valueOf", "hasOwnProperty",
      "isPrototypeOf", "propertyIsEnumerable", "__lookupGetter__",
      "__lookupSetter__" }

\* ... and these are truthy but throw a TypeError when called that way
\* (__proto__ is no function; __defineGetter__ wants a function argument)
InheritedThrowing == { "__proto__", "__defineGetter__", "__defineSetter__" }

\* the handler store[nextArg] names among the table's own keys, "" if none
TableHandler(d, name, orig) ==
    IF d = 1 THEN MessageHandler(name, orig) ELSE EmbedHandler(name)

\* await store[nextArg]() for an own key; the embed handler runs up to its
\* nested useArgsStore call, which the following iterations perform
RunHandler(d, h, st, orig) ==
    IF d = 1
    THEN CASE h = "insert" -> Insert(st, orig[1])
           [] h = "content" -> Content(st)
           [] h = "attttachment" -> Attttachment(st)
           [] h = "rest" -> Rest(st)
           [] h = "embed" -> EmbedEnter(st)
    ELSE CASE h = "title" -> Title(st)
           [] h = "footer" -> Footer(st)
           [] h = "footerme" -> Footerme(st)
           [] h = "footericon" -> Footericon(st)
           [] h = "author" -> Author(st)
           [] h = "authorme" -> Authorme(st)
           [] h = "authoricon" -> Authoricon(st)
           [] h = "time" -> Time(st)
           [] h = "content" -> EmbedContent(st)
           [] h = "url" -> Url(st)
           [] h = "color" -> Color(st)
           [] h = "rest" -> EmbedRest(st)

\* if (store[nextArg]) await store[nextArg](); else throw ...
Dispatch(d, name, st, orig) ==
    LET h == TableHandler(d, name, orig) IN
    IF h # "" THEN RunHandler(d, h, st, orig)
    ELSE IF name \in InheritedCallable THEN st
    ELSE IF name \in InheritedThrowing
    THEN Throw(st, OtherError("TypeError: store[nextArg] is not a function"))
    ELSE Throw(st, CommandError("Argument " \o name \o " is unknown/unexpected here"))

\* the flag name an iteration uses and the cursor it leaves for the handler
NextArg(r) ==
    IF FlagShaped(r)
    THEN LET t == readNextArg(r)
         IN  [name |-> Substr(t.arg, 1), remainder |-> t.remainder]
    ELSE [name |-> "rest", remainder |-> r]

\* a loop that tests nothing: while (true)
LoopGuardAlways(r) == TRUE

\* while (remainder.length !== 0)
LoopGuard(r) == Len(r) # 0

\* useArgsStore(store) run from start to end without interruption, on the
\* table of depth d: the closure state when it returns or throws
RECURSIVE RunLoop(_, _, _)
RunLoop(d, st, orig) ==
    IF ~LoopGuard(st.remainder) THEN st
    ELSE LET na == NextArg(st.remainder)
             h == TableHandler(d, na.name, orig)
             s1 == Dispatch(d, na.name, [st EXCEPT !.remainder = na.remainder], orig)
             s2 == IF s1.error = <<>> /\ d = 1 /\ h = "embed"
                   THEN RunLoop(2, s1, orig)
                   ELSE s1
         IN  IF s2.error # <<>> THEN s2
             ELSE RunLoop(d, [s2 EXCEPT !.remainder = Trim(@)], orig)

\* parseMessageAdvancedArgs(args, message, original) run without interruption
ParseAlone(args, orig) ==
    RunLoop(1, Closure(Trim(args), "", EmptyOptions, {}), orig)

\* ------------------------------------------------------------------------
\* Reference resolvers and the platform
\* ------------------------------------------------------------------------

\* the digits of the first <#digits> in data (/<#(\d+)>/), "" when none
RECURSIVE DigitRun(_, _)
DigitRun(s, i) ==
    IF i < Len(s) /\ IndexOfFrom(DecimalDigits, CharAt(s, i), 0) >= 0
    THEN CharAt(s, i) \o DigitRun(s, i + 1)
    ELSE ""

RECURSIVE MentionFrom(_, _, _)
MentionFrom(data, sigil, i) ==
    IF i >= Len(data) THEN ""
    ELSE LET digits == DigitRun(data, i + 2) IN
         IF /\ CharAt(data, i) = "<"
            /\ CharAt(data, i + 1) = sigil
            /\ digits # ""
            /\ CharAt(data, i + 2 + Len(digits)) = ">"
         THEN digits
         ELSE MentionFrom(data, sigil, i + 1)

\* the id parseChannel looks up
ChannelId(data) ==
    LET m == MentionFrom(data, "#", 0) IN IF m # "" THEN m ELSE data

\* what client.channels.fetch(id) may do: resolve to a text channel, to a
\* channel that is not text based, to null, or reject
ChannelOutcomes == {"text", "voice", "null", "throw"}

\* parseTextChannel(data) under a fetch outcome: [error, channel]
parseTextChannel(data, out) ==
    CASE out = "throw" ->
           [error |-> <<CommandError("Couldn't find channel with id \""
                                      \o ChannelId(data) \o "\"")>>,
            channel |-> "null"]
      [] out = "voice" ->
           [error |-> <<CommandError("That channel isn't a text channel")>>,
            channel |-> "null"]
      [] out = "null" -> [error |-> <<>>, channel |-> "null"]
      [] OTHER -> [error |-> <<>>, channel |-> "other"]

\* the id under which the platform holds `stored`
StoredMessageId == "7"

\* ssend up to its call of parseMessageAdvancedArgs: [error, channel, args]
SsendPrelude(txt, out) ==
    IF StartsWith(txt, "<#")
    THEN LET t == readNextArg(txt)
             c == parseTextChannel(t.arg, out)
         IN  [error |-> c.error, channel |-> c.channel, args |-> t.remainder]
    ELSE [error |-> <<>>, channel |-> "origin", args |-> txt]

\* sedit up to its call of channel.messages.fetch:
\* [error, channel, args, messageArg]
SeditPrelude(txt, out) ==
    LET t1 == readNextArg(txt) IN
    IF ~t1.ok
    THEN [error |-> <<t1.error>>, channel |-> "origin", args |-> txt, messageArg |-> ""]
    ELSE IF StartsWith(t1.arg, "<#")
    THEN LET c == parseTextChannel(t1.arg, out)
             t2 == readNextArg(t1.remainder)
         IN  IF c.error # <<>>
             THEN [error |-> c.error, channel |-> c.channel,
                   args |-> t1.remainder, messageArg |-> ""]
             ELSE IF ~t2.ok
             THEN [error |-> <<t2.error>>, channel |-> c.channel,
                   args |-> t1.remainder, messageArg |-> ""]
             ELSE [error |-> <<>>, channel |-> c.channel,
                   args |-> t2.remainder, messageArg |-> t2.arg]
    ELSE [error |-> <<>>, channel |-> "origin",
          args |-> t1.remainder, messageArg |-> t1.arg]

\* sedit calls parseTextChannel: its first argument opens with "<#"
SeditNamesChannel(txt) ==
    LET t1 == readNextArg(txt) IN t1.ok /\ StartsWith(t1.arg, "<#")

\* a report that sends the response of any error unprefixed
ReportTextBare(e) == e.response

\* the text the messageCreate listener sends for a caught error
ReportText(e) ==
    IF e.kind = "CommandError"
    THEN "Error: " \o e.response
    ELSE "An unknown error occured:\n" \o e.response

\* one call on the platform: channel.send / message.edit by a handler, or
\* msg.channel.send by the listener's catch
Call(op, by, to, c, o) ==
    [call |-> op, by |-> by, to |-> to, content |-> c, options |-> o]

\* ------------------------------------------------------------------------
\* Inputs
\* ------------------------------------------------------------------------

\* the flag groups argument texts are built from: message flags, embed
\* flags, free text, flags no table defines, and names Object.prototype has
Vocabulary ==
    { "-c a", "-text \"b c\"", "-c", "-f u", "-att v", "-ins", "-embed",
      "-rest", "hello", "-zz", "-constructor", "-__proto__",
      "-title t", "-title", "-footer Foo", "-footerme", "-footericon i",
      "-author A", "-authorme", "-authoricon j",
      "-time NoW", "-time 2020", "-time bad", "-url <u>", "-col ff" }

Join(b, v) == IF b = "" THEN v ELSE IF v = "" THEN b ELSE b \o " " \o v

\* the texts of at most n flag groups
RECURSIVE Bodies(_)
Bodies(n) ==
    IF n = 0 THEN {""}
    ELSE LET B == Bodies(n - 1) IN B \cup { Join(b, v) : b \in B, v \in Vocabulary }

\* what precedes the flags: nothing or a channel mention for ssend; the
\* message reference, with or without a channel mention, for sedit
UsualHead(c) == IF c = "ssend" THEN "" ELSE StoredMessageId \o " "

OtherHeads(c) ==
    IF c = "ssend" THEN {"<#1> "}
    ELSE {"", "<#1> ", "<#1> " \o StoredMessageId \o " ", "8 "}

\* how an argument text opens: with nothing, with the embed flag, and when
\* editing also with the insert flag before them
Openings(c) ==
    {"", "-embed"} \cup (IF c = "sedit" THEN {"-ins", "-ins -embed"} ELSE {})

\* longer argument texts: content for the message and for the embed, each
\* by flag and by trailing text, and an embed of three fields
Scenarios ==
    { "-c a -embed -c b",
      "-c a -embed -rest b c",
      "-c a -f u -embed b c",
      "-c a -embed -title t -txt b -c d",
      "-embed -title \"News\" -col ff0000 -rest Big announcement" }

Texts(c) ==
    { UsualHead(c) \o Join(o, b) : o \in Openings(c), b \in Bodies(MaxItems) }
    \cup { h \o b : h \in OtherHeads(c), b \in Bodies(MaxHeadItems) }
    \cup { UsualHead(c) \o t : t \in Scenarios }

\* an embed the edited message may already carry
OldEmbed ==
    [EmptyEmbed EXCEPT !.title = <<"Old">>,
                       !.footer = <<[text |-> "oldfoot", icon_url |-> <<"old.png">>]>>]

\* the messages the platform may hold under StoredMessageId
StoredMessages ==
    { [content |-> "old", embeds |-> <<>>],
      [content |-> "old", embeds |-> <<OldEmbed>>] }

\* ------------------------------------------------------------------------
\* Initial state and actions
\* ------------------------------------------------------------------------

\* no external lookup made yet
NoLookup == [channel |-> "none", message |-> "none"]

\* no message event: the invocation is looked at from the handler's call on
NoEvent == [bot |-> FALSE, content |-> "", member |-> "none", roles |-> {}]

NoIteration ==
    [n |-> 0, depth |-> 0, start |-> "", shaped |-> FALSE, name |-> "",
     handler |-> "", invoked |-> FALSE, handed |-> "", raised |-> FALSE]

\* nothing done yet for the invocation
Fresh ==
    /\ channel = "origin"
    /\ original = <<>>
    /\ remainder = ""
    /\ content = ""
    /\ options = EmptyOptions
    /\ alreadySet = {}
    /\ depth = 0
    /\ err = <<>>
    /\ outbound = <<>>
    /\ iter = NoIteration
    /\ trail = <<>>
    /\ tok = <<>>
    /\ lookup = NoLookup

\* the handler is about to be called
Idle ==
    /\ pc = "handler"
    /\ Fresh

\* the invocation on its own, the listener having admitted it (lines 589-606)
Admitted ==
    /\ event = NoEvent
    /\ gate = "admitted"
    /\ peer = <<>>

Init ==
    /\ cmd \in {"ssend", "sedit"}
    /\ text \in Texts(cmd)
    /\ stored \in IF cmd = "sedit" THEN StoredMessages ELSE {[content |-> "old", embeds |-> <<>>]}
    /\ Idle
    /\ Admitted

\* parseMessageAdvancedArgs(args, message, original) up to its first loop test
BeginParse(args, orig) ==
    /\ original' = orig
    /\ remainder' = Trim(args)
    /\ content' = ""
    /\ options' = EmptyOptions
    /\ alreadySet' = {}
    /\ depth' = 1
    /\ pc' = "parse"
    /\ err' = <<>>

\* a throw that reaches the listener's try block
Raise(e) ==
    /\ err' = <<e>>
    /\ pc' = "catch"

\* commandLibrary.ssend.handler up to its call of parseMessageAdvancedArgs
SsendStart ==
    /\ pc = "handler" /\ cmd = "ssend"
    /\ \E out \in ChannelOutcomes :
         LET p == SsendPrelude(text, out) IN
         /\ channel' = p.channel
         /\ lookup' = [lookup EXCEPT !.channel =
                           IF StartsWith(text, "<#") THEN out ELSE "none"]
         /\ IF p.error # <<>>
            THEN Raise(p.error[1]) /\ UNCHANGED <<original, parseVars>>
            ELSE BeginParse(p.args, <<>>)
    /\ UNCHANGED <<cmd, text, stored, outbound, iter, trail, tok, event, gate, peer>>

\* commandLibrary.sedit.handler up to its call of parseMessageAdvancedArgs;
\* channel.messages.fetch resolves only the stored id, and may reject it too
SeditStart ==
    /\ pc = "handler" /\ cmd = "sedit"
    /\ \E out \in ChannelOutcomes, fetched \in BOOLEAN :
         LET p == SeditPrelude(text, out)
             found == fetched /\ p.messageArg = StoredMessageId
         IN
         /\ channel' = p.channel
         /\ lookup' = [channel |-> IF SeditNamesChannel(text) THEN out ELSE "none",
                        message |-> IF p.error # <<>> \/ p.channel = "null" THEN "none"
                                    ELSE IF found THEN "found" ELSE "rejected"]
         /\ IF p.error # <<>>
            THEN Raise(p.error[1]) /\ UNCHANGED <<original, parseVars>>
            ELSE IF p.channel = "null"
            THEN /\ Raise(OtherError("TypeError: Cannot read properties of null"))
                 /\ UNCHANGED <<original, parseVars>>
            ELSE IF ~found
            THEN /\ Raise(OtherError("DiscordAPIError: Unknown Message"))
                 /\ UNCHANGED <<original, parseVars>>
            ELSE BeginParse(p.args, <<stored>>)
    /\ UNCHANGED <<cmd, text, stored, outbound, iter, trail, tok, event, gate, peer>>

\* one iteration of the while loop of the innermost running useArgsStore
Iterate ==
    /\ pc = "parse"
    /\ LoopGuard(remainder)
    /\ \E na \in {NextArg(remainder)} :
       \E h \in {TableHandler(depth, na.name, original)} :
       \E st1 \in {Dispatch(depth, na.name,
                            Closure(na.remainder, content, options, alreadySet),
                            original)} :
       LET raised == st1.error # <<>>
           nested == ~raised /\ depth = 1 /\ h = "embed"
       IN  /\ remainder' = IF raised \/ nested THEN st1.remainder ELSE Trim(st1.remainder)
           /\ content' = st1.content
           /\ options' = st1.options
           /\ alreadySet' = st1.alreadySet
           /\ depth' = IF nested THEN 2 ELSE depth
           /\ err' = st1.error
           /\ pc' = IF raised THEN "catch" ELSE "parse"
           /\ iter' = [n |-> iter.n + 1, depth |-> depth, start |-> remainder,
                       shaped |-> FlagShaped(remainder), name |-> na.name,
                       handler |-> h,
                       invoked |-> (h # "" \/ na.name \in InheritedCallable
                                           \/ na.name \in InheritedThrowing),
                       handed |-> na.remainder, raised |-> raised]
           /\ trail' = IF h # "" THEN Append(trail, [depth |-> depth, handler |-> h,
                                                      handed |-> na.remainder,
                                                      raised |-> raised])
                       ELSE trail
    /\ UNCHANGED <<cmd, text, stored, channel, original, outbound, tok, lookup,
                   event, gate, peer>>

\* the loop test fails: the nested useArgsStore returns into the embed
\* handler and the outer iteration ends with its trim, or the outer
\* useArgsStore returns and parseMessageAdvancedArgs returns the payload
ExitLoop ==
    /\ pc = "parse"
    /\ ~LoopGuard(remainder)
    /\ IF depth = 2
       THEN /\ depth' = 1
            /\ remainder' = Trim(remainder)
            /\ pc' = "parse"
       ELSE /\ depth' = 0
            /\ remainder' = remainder
            /\ pc' = "deliver"
    /\ UNCHANGED <<cmd, text, stored, channel, original, content, options,
                   alreadySet, err, outbound, iter, trail, tok, lookup, event,
                   gate, peer>>

\* channel.send({ ...options, content }) of ssend, message.edit(...) of
\* sedit; the platform may reject the call
Deliver ==
    /\ pc = "deliver"
    /\ IF cmd = "ssend" /\ channel = "null"
       THEN /\ Raise(OtherError("TypeError: Cannot read properties of null"))
            /\ outbound' = outbound
       ELSE \E accepted \in BOOLEAN :
            /\ outbound' = Append(outbound,
                   Call(IF cmd = "ssend" THEN "send" ELSE "edit", "handler",
                        IF cmd = "ssend" THEN channel ELSE "message",
                        content, options))
            /\ IF accepted
               THEN pc' = "done" /\ err' = err
               ELSE Raise(OtherError("DiscordAPIError"))
    /\ UNCHANGED <<cmd, text, stored, channel, original, parseVars, iter, trail,
                   tok, lookup, event, gate, peer>>

\* the catch block of the messageCreate listener
Catch ==
    /\ pc = "catch"
    /\ outbound' = Append(outbound,
           Call("send", "listener", "origin", ReportText(err[1]), EmptyOptions))
    /\ pc' = "done"
    /\ UNCHANGED <<cmd, text, stored, channel, original, parseVars, err, iter,
                   trail, tok, lookup, event, gate, peer>>

Next == SsendStart \/ SeditStart \/ Iterate \/ ExitLoop \/ Deliver \/ Catch

Spec == Init /\ [][Next]_vars

\* ------------------------------------------------------------------------
\* The tokenizer on its own
\* ------------------------------------------------------------------------

\* the characters texts for the tokenizer are built from
TokenAlphabet == {"\"", "\\", "a", "n", " ", "\n", "-"}

RECURSIVE Strings(_)
Strings(n) ==
    IF n = 0 THEN {""}
    ELSE LET S == Strings(n - 1) IN S \cup { s \o c : s \in S, c \in TokenAlphabet }

ArgInit ==
    /\ cmd = "readNextArg"
    /\ text \in Strings(MaxLen)
    /\ stored = [content |-> "old", embeds |-> <<>>]
    /\ Idle
    /\ Admitted

\* a call readNextArg(text)
CallReadNextArg ==
    /\ pc = "handler" /\ cmd = "readNextArg"
    /\ tok' = <<readNextArg(text)>>
    /\ pc' = "done"
    /\ UNCHANGED <<cmd, text, stored, channel, original, parseVars, err,
                   outbound, iter, trail, lookup, event, gate, peer>>

ArgNext == CallReadNextArg

ArgSpec == ArgInit /\ [][ArgNext]_vars

\* the characters texts for readNextLine are built from
LineAlphabet == {"a", "b", " ", "\n", "\r"}

RECURSIVE Lines(_)
Lines(n) ==
    IF n = 0 THEN {""}
    ELSE LET S == Lines(n - 1) IN S \cup { s \o c : s \in S, c \in LineAlphabet }

LineInit ==
    /\ cmd = "readNextLine"
    /\ text \in Lines(MaxLen)
    /\ stored = [content |-> "old", embeds |-> <<>>]
    /\ Idle
    /\ Admitted

\* a call readNextLine(text), as news makes two of
CallReadNextLine ==
    /\ pc = "handler" /\ cmd = "readNextLine"
    /\ tok' = <<readNextLine(text)>>
    /\ pc' = "done"
    /\ UNCHANGED <<cmd, text, stored, channel, original, parseVars, err,
                   outbound, iter, trail, lookup, event, gate, peer>>

LineNext == CallReadNextLine

LineSpec == LineInit /\ [][LineNext]_vars

\* ------------------------------------------------------------------------
\* The messageCreate listener before the handler
\* ------------------------------------------------------------------------

\* process.env.PREFIX ?? 'p!'
Prefix == "p!"

\* process.env.ROLE_WHITELIST.split(',')
DefaultRoleWhitelist == {"r1", "r2"}

\* the own keys of commandLibrary
CommandNames == {"help", "send", "sendc", "sendu", "ssend", "sedit", "news"}

\* content.split(' ')[0]
FirstWord(s) ==
    LET i == IndexOfFrom(s, " ", 0) IN IF i < 0 THEN s ELSE SubSeq(s, 1, i)

\* content.split(' ')[0].substr(prefix.length)
CommandOf(s) == Substr(FirstWord(s), Len(Prefix))

\* commandLibrary[command] is truthy: an own key, or a member the object
\* literal inherits from Object.prototype
InLibrary(command) ==
    command \in CommandNames \cup InheritedCallable \cup InheritedThrowing

\* a role check that any role at all passes
FoundRoleAny(roles, whitelist) == roles # {}

\* author.roles.cache.find(r => roleWhitelist.includes(r.id))
FoundRole(roles, whitelist) == roles \cap whitelist # {}

\* the message events: by a bot or not, with these texts, from an author
\* whose member record in the role server is found, is missing, or whose
\* lookup is rejected, holding these roles
GateContents ==
    { "p!ssend -c a", "p!ssend <#1> hello", "p!sedit 7 -c a", "p!sedit 8",
      "p!help", "p!nope -c a", "p!constructor", "p!", "ssend -c a",
      "x p!ssend -c a", "hello" }

GateEvents ==
    [bot : BOOLEAN, content : GateContents,
     member : {"found", "none", "rejected"},
     roles : SUBSET {"r1", "r9"}]

GateInit ==
    /\ cmd = "none"
    /\ text = ""
    /\ stored = [content |-> "old", embeds |-> <<OldEmbed>>]
    /\ pc = "event"
    /\ Fresh
    /\ event \in GateEvents
    /\ gate = "pending"
    /\ peer = <<>>

\* the listener from its first line to the call of the handler
Receive ==
    /\ pc = "event"
    /\ LET command == CommandOf(event.content)
           ignored == /\ gate' = "ignored" /\ pc' = "done"
                      /\ UNCHANGED <<cmd, text, err>>
           failed(e) == /\ gate' = "failed" /\ Raise(e)
                        /\ UNCHANGED <<cmd, text>>
       IN  IF event.bot THEN ignored
           ELSE IF ~StartsWith(event.content, Prefix) THEN ignored
           ELSE IF ~InLibrary(command) THEN ignored
           ELSE IF event.member = "rejected"
           THEN failed(OtherError("DiscordAPIError: Unknown Member"))
           ELSE IF event.member = "none" THEN ignored
           ELSE IF ~FoundRole(event.roles, DefaultRoleWhitelist) THEN ignored
           ELSE IF command \notin CommandNames
           THEN failed(OtherError("TypeError: comm.handler is not a function"))
           ELSE /\ gate' = "admitted"
                /\ cmd' = command
                /\ text' = Substr(event.content, Len(command) + Len(Prefix) + 1)
                /\ pc' = "handler"
                /\ err' = err
    /\ UNCHANGED <<stored, channel, original, parseVars, outbound, iter, trail,
                   tok, lookup, event, peer>>

\* commandLibrary.help.handler: one send to the channel of the message
HelpStart ==
    /\ pc = "handler" /\ cmd = "help"
    /\ outbound' = Append(outbound,
           Call("send", "handler", "origin", "Command Help", EmptyOptions))
    /\ \E accepted \in BOOLEAN :
         IF accepted THEN pc' = "done" /\ err' = err
         ELSE Raise(OtherError("DiscordAPIError"))
    /\ UNCHANGED <<cmd, text, stored, channel, original, parseVars, iter, trail,
                   tok, lookup, event, gate, peer>>

GateNext ==
    \/ Receive \/ HelpStart
    \/ SsendStart \/ SeditStart \/ Iterate \/ ExitLoop \/ Deliver \/ Catch

GateSpec == GateInit /\ [][GateNext]_vars

\* ------------------------------------------------------------------------
\* Two invocations at once
\* ------------------------------------------------------------------------

\* The listener is async and a handler gives way at each await: the lookups
\* of its prelude, each `await store[nextArg]()`, the send or edit. A second
\* invocation, `peer`, takes its steps between those of the first. What
\* parseMessageAdvancedArgs declares with `let` belongs to one call of it,
\* so the peer has its own cursor, content, options and claims. A message
\* the platform hands out is taken as the value fetched.

\* the argument texts of the two invocations
PairBodies(c) ==
    { "-c a", "-c a -rest", "hello", "-f u -embed -title t -rest d",
      "-embed -footericon i", "-embed -footerme -col ff" }
    \cup (IF c = "sedit" THEN {"-ins -embed -footer Foo -footericon i"} ELSE {})

PairTexts(c) == { UsualHead(c) \o b : b \in PairBodies(c) }

\* the second invocation before its handler is called
PeerIdle(c, t) ==
    [cmd |-> c, text |-> t, pc |-> "handler", channel |-> "origin",
     original |-> <<>>, args |-> "", remainder |-> "", content |-> "",
     options |-> EmptyOptions, alreadySet |-> {}, depth |-> 0, err |-> <<>>,
     calls |-> <<>>]

PairInit ==
    /\ cmd \in {"ssend", "sedit"}
    /\ text \in PairTexts(cmd)
    /\ stored = [content |-> "old", embeds |-> <<OldEmbed>>]
    /\ Idle
    /\ event = NoEvent
    /\ gate = "admitted"
    /\ peer \in { <<PeerIdle(c, t)>> : c \in {"ssend", "sedit"},
                                       t \in PairTexts("ssend") \cup PairTexts("sedit") }
    /\ peer[1].text \in PairTexts(peer[1].cmd)

\* the claims the peer's checkSet consults, were alreadySet one object of
\* the module that every parse shares
PeerClaimsShared(p) == p.alreadySet \cup alreadySet

\* the claims the peer's checkSet consults: the alreadySet of its own parse
PeerClaims(p) == p.alreadySet

PeerUnchanged ==
    UNCHANGED <<cmd, text, stored, pc, channel, original, remainder, content,
                options, alreadySet, depth, err, outbound, iter, trail, tok,
                lookup, event, gate>>

\* the peer's handler up to its call of parseMessageAdvancedArgs
PeerStart ==
    /\ peer # <<>> /\ peer[1].pc = "handler"
    /\ \E out \in ChannelOutcomes, fetched \in BOOLEAN :
         LET p == peer[1]
             pre == IF p.cmd = "ssend" THEN SsendPrelude(p.text, out)
                    ELSE SeditPrelude(p.text, out)
             found == fetched /\ pre.messageArg = StoredMessageId
             failure ==
                 IF pre.error # <<>> THEN pre.error
                 ELSE IF p.cmd = "sedit" /\ pre.channel = "null"
                 THEN <<OtherError("TypeError: Cannot read properties of null")>>
                 ELSE IF p.cmd = "sedit" /\ ~found
                 THEN <<OtherError("DiscordAPIError: Unknown Message")>>
                 ELSE <<>>
         IN  peer' = IF failure # <<>>
                     THEN <<[p EXCEPT !.channel = pre.channel, !.err = failure,
                                      !.pc = "catch"]>>
                     ELSE <<[p EXCEPT !.channel = pre.channel,
                                      !.original = IF p.cmd = "sedit" THEN <<stored>>
                                                   ELSE <<>>,
                                      !.args = pre.args,
                                      !.remainder = Trim(pre.args),
                                      !.content = "", !.options = EmptyOptions,
                                      !.alreadySet = {}, !.depth = 1,
                                      !.pc = "parse"]>>
    /\ PeerUnchanged

\* one iteration of the peer's innermost running useArgsStore
PeerIterate ==
    /\ peer # <<>> /\ peer[1].pc = "parse"
    /\ LoopGuard(peer[1].remainder)
    /\ \E p \in {peer[1]} :
       \E na \in {NextArg(p.remainder)} :
       \E h \in {TableHandler(p.depth, na.name, p.original)} :
       \E st1 \in {Dispatch(p.depth, na.name,
                            Closure(na.remainder, p.content, p.options, PeerClaims(p)),
                            p.original)} :
       LET raised == st1.error # <<>>
           nested == ~raised /\ p.depth = 1 /\ h = "embed"
       IN  peer' = <<[p EXCEPT
                 !.remainder = IF raised \/ nested THEN st1.remainder
                               ELSE Trim(st1.remainder),
                 !.content = st1.content,
                 !.options = st1.options,
                 !.alreadySet = st1.alreadySet,
                 !.depth = IF nested THEN 2 ELSE p.depth,
                 !.err = st1.error,
                 !.pc = IF raised THEN "catch" ELSE "parse"]>>
    /\ PeerUnchanged

\* the peer's loop test fails
PeerExitLoop ==
    /\ peer # <<>> /\ peer[1].pc = "parse"
    /\ ~LoopGuard(peer[1].remainder)
    /\ peer' = IF peer[1].depth = 2
               THEN <<[peer[1] EXCEPT !.depth = 1, !.remainder = Trim(@)]>>
               ELSE <<[peer[1] EXCEPT !.depth = 0, !.pc = "deliver"]>>
    /\ PeerUnchanged

\* the peer's channel.send / message.edit
PeerDeliver ==
    /\ peer # <<>> /\ peer[1].pc = "deliver"
    /\ \E accepted \in BOOLEAN :
         LET p == peer[1]
             call == Call(IF p.cmd = "ssend" THEN "send" ELSE "edit", "handler",
                          IF p.cmd = "ssend" THEN p.channel ELSE "message",
                          p.content, p.options)
         IN  peer' = IF p.cmd = "ssend" /\ p.channel = "null"
                     THEN <<[p EXCEPT !.pc = "catch", !.err =
                               <<OtherError("TypeError: Cannot read properties of null")>>]>>
                     ELSE IF accepted
                     THEN <<[p EXCEPT !.calls = Append(@, call), !.pc = "done"]>>
                     ELSE <<[p EXCEPT !.calls = Append(@, call), !.pc = "catch",
                                      !.err = <<OtherError("DiscordAPIError")>>]>>
    /\ PeerUnchanged

\* the catch block of the listener that called the peer's handler
PeerCatch ==
    /\ peer # <<>> /\ peer[1].pc = "catch"
    /\ peer' = <<[peer[1] EXCEPT
                    !.calls = Append(@, Call("send", "listener", "origin",
                                             ReportText(peer[1].err[1]), EmptyOptions)),
                    !.pc = "done"]>>
    /\ PeerUnchanged

PairNext ==
    \/ SsendStart \/ SeditStart \/ Iterate \/ ExitLoop \/ Deliver \/ Catch
    \/ PeerStart \/ PeerIterate \/ PeerExitLoop \/ PeerDeliver \/ PeerCatch

PairSpec == PairInit /\ [][PairNext]_vars

\* ------------------------------------------------------------------------
\* Vocabulary of the properties
\* ------------------------------------------------------------------------

\* the platform calls a handler made (the listener's report is not one)
HandlerCalls == { i \in DOMAIN outbound : outbound[i].by = "handler" }

\* the parse ended by raising: no payload was returned
NoPayload == pc \in {"catch", "done"} /\ HandlerCalls = {}

\* the last loop iteration ran a handler of the table it dispatched on
RanHandler == iter.n > 0 /\ iter.handler # ""

\* the labels a handler of the source claims, in the order it claims them
LabelsOf(d, h) ==
    IF d = 1
    THEN CASE h \in {"content", "rest"} -> <<"Content">>
           [] OTHER -> <<>>
    ELSE CASE h = "title" -> <<"Embed title">>
           [] h = "footer" -> <<"Embed footer">>
           [] h = "footerme" -> <<"Embed footer", "Embed footer icon">>
           [] h = "footericon" -> <<"Embed footer icon">>
           [] h = "author" -> <<"Embed author">>
           [] h = "authorme" -> <<"Embed author", "Embed author icon">>
           [] h = "authoricon" -> <<"Embed author icon">>
           [] h = "time" -> <<"Embed timestamp">>
           [] h \in {"content", "rest"} -> <<"Embed content">>
           [] h = "url" -> <<"Embed url">>
           [] h = "color" -> <<"Embed color">>
           [] OTHER -> <<>>

Range(f) == { f[i] : i \in DOMAIN f }

\* the labels claimed by the actions dispatched before the last one
ClaimedEarlier ==
    UNION { Range(LabelsOf(trail[i].depth, trail[i].handler)) :
            i \in 1..(Len(trail) - 1) }

\* the handlers that read their argument from the cursor before they claim
\* their label (the others claim first, or read nothing)
ReadsBeforeClaiming(d, h) == h = "content"

\* the argument the last dispatched action was given, when there was one
LastArgument == readNextArg(trail[Len(trail)].handed).arg

\* ------------------------------------------------------------------------
\* C1
\* ------------------------------------------------------------------------

\* the labels the last dispatched action claims that an earlier dispatched
\* action of this parse has claimed already
Reclaimed ==
    { l \in Range(LabelsOf(iter.depth, iter.handler)) : l \in ClaimedEarlier }

\* C1: whenever an action is dispatched (from either table, composing or
\* editing) that claims a label an earlier dispatched action of the same
\* parse has claimed (for content/txt/c, which read their argument before
\* they claim: with an argument there to be read), the action raises
\* CommandError "<label> set more than once" for such a label, whatever the
\* arguments are, and the parse returns no payload.
C1_DuplicateClaim ==
    (/\ RanHandler
     /\ Reclaimed # {}
     /\ (ReadsBeforeClaiming(iter.depth, iter.handler) => iter.handed # ""))
    => /\ iter.raised
       /\ \E l \in Reclaimed : err = <<CommandError(l \o " set more than once")>>
       /\ NoPayload

\* a second title inside the embed table was refused
C1_Witness ==
    /\ pc = "catch"
    /\ iter.depth = 2 /\ iter.handler = "title"
    /\ err = <<CommandError("Embed title set more than once")>>

\* ------------------------------------------------------------------------
\* C2
\* ------------------------------------------------------------------------

\* the flag names argsStore defines itself
MessageFlagNames ==
    {"c", "txt", "text", "content", "f", "att", "attttachment", "rest", "embed"}
    \cup (IF original # <<>> THEN {"ins", "insert"} ELSE {})

\* the flag names embedArgsStore defines itself
EmbedFlagNames ==
    {"title", "footer", "footerme", "footericon", "author", "authorme",
     "authoricon", "time", "c", "txt", "text", "content", "url", "col",
     "color", "rest"}

\* C2: every flag-shaped token whose name the dispatched table does not
\* define raises CommandError "Argument <name> is unknown/unexpected here",
\* invokes nothing, and the parse returns no payload.
C2_UnknownFlag ==
    (/\ iter.n > 0
     /\ iter.shaped
     /\ iter.name \notin (IF iter.depth = 1 THEN MessageFlagNames ELSE EmbedFlagNames))
    => /\ ~iter.invoked
       /\ err = <<CommandError("Argument " \o iter.name \o " is unknown/unexpected here")>>
       /\ NoPayload

\* ------------------------------------------------------------------------
\* C3
\* ------------------------------------------------------------------------

\* the coming step is an iteration of the embed table that dispatches `name`
EmbedDispatches(name) ==
    /\ pc = "parse" /\ depth = 2 /\ LoopGuard(remainder)
    /\ NextArg(remainder).name = name

\* what a step that dispatches an icon flag does, for the sub-document
\* `field` ("footer" or "author") whose text lies in `textKey`
IconStep(field, textKey, label, message) ==
    LET na == NextArg(remainder)
        before == TheEmbed([options |-> options])[field]
        after == TheEmbed([options |-> options'])[field]
        read == readNextArg(na.remainder)
    IN  /\ before = <<>> =>
              /\ err' = <<CommandError(message)>>
              /\ pc' = "catch"
              /\ options' = options
              /\ remainder' = na.remainder
        /\ (before # <<>> /\ label \notin alreadySet /\ read.ok) =>
              /\ err' = <<>>
              /\ after # <<>>
              /\ after[1][textKey] = before[1][textKey]
              /\ after[1].icon_url = <<read.arg>>
              /\ remainder' = Trim(read.remainder)

\* C3: dispatching footericon while the embed has no footer raises
\* CommandError "Footer text needs to be set before the footer icon",
\* consumes no argument and leaves the embed as it was; dispatching it when
\* footer text T is set (the icon not yet claimed, an argument to read)
\* leaves footer = {text: T, icon: the argument}. The same for authoricon
\* and the author's name.
C3_IconOrdering ==
    [][ /\ EmbedDispatches("footericon") =>
              IconStep("footer", "text", "Embed footer icon",
                       "Footer text needs to be set before the footer icon")
        /\ EmbedDispatches("authoricon") =>
              IconStep("author", "name", "Embed author icon",
                       "author text needs to be set before the author icon")
      ]_vars

\* -embed -footer Foo -footericon i has been parsed
C3_Witness ==
    /\ pc = "parse" /\ depth = 2
    /\ iter.handler = "footericon" /\ ~iter.raised
    /\ TheEmbed([options |-> options]).footer = <<[text |-> "Foo", icon_url |-> <<"i">>]>>

\* ------------------------------------------------------------------------
\* C4
\* ------------------------------------------------------------------------

\* a dash followed by a word character opens s
DashWord(s) ==
    /\ Len(s) >= 2
    /\ SubSeq(s, 1, 1) = "-"
    /\ SubSeq(s, 2, 2) \in WordChars

\* C4 as claimed: no iteration runs on an empty cursor, and whenever the
\* rest action of either table is invoked, the cursor the iteration started
\* from was non-empty and not flag-shaped, and the action has text to consume.
C4_RestOnlyForUnflaggedText ==
    iter.n > 0 =>
        /\ iter.start # ""
        /\ iter.handler = "rest" =>
              /\ ~DashWord(iter.start)
              /\ iter.handed # ""

\* C4 as it holds: no iteration runs on an empty cursor; the sentinel name
\* rest is chosen only for a non-empty cursor that is not flag-shaped, and
\* then the rest action is handed that whole cursor; the rest action is
\* otherwise invoked only by the flag token -rest.
C4_RestSentinel ==
    iter.n > 0 =>
        /\ iter.start # ""
        /\ ~iter.shaped =>
              /\ ~DashWord(iter.start)
              /\ iter.name = "rest"
              /\ iter.handed = iter.start
        /\ (iter.handler = "rest" /\ iter.shaped) =>
              /\ DashWord(iter.start)
              /\ readNextArg(iter.start).arg = "-rest"

\* the flag token -rest ran the rest action with nothing left to consume
C4_Witness ==
    /\ iter.n > 0 /\ iter.handler = "rest" /\ iter.shaped
    /\ iter.handed = "" /\ ~iter.raised

\* ------------------------------------------------------------------------
\* C5
\* ------------------------------------------------------------------------

\* the guards of the actions; each action is defined for every state its
\* guard admits, so one of them holding means a step can be taken
CanStep ==
    \/ pc = "handler" /\ cmd \in {"ssend", "sedit"}
    \/ pc = "parse" /\ LoopGuard(remainder)
    \/ pc = "parse" /\ ~LoopGuard(remainder)
    \/ pc = "deliver"
    \/ pc = "catch"

\* C5: every invocation ends, the parse returning or raising: while the
\* parse runs, the iterations made and the characters left never exceed the
\* length of the input, and a step can be taken in every state short of the
\* end; and every loop iteration that does not raise, of the outer or of
\* the nested loop, leaves the cursor strictly shorter than it found it.
C5_Termination ==
    /\ pc = "parse" => iter.n + Len(remainder) <= Len(text)
    /\ (pc = "parse" /\ iter.n > 0) => Len(remainder) < Len(iter.start)
    /\ pc = "done" \/ CanStep

\* a parse that went through the nested loop and was delivered
C5_Witness ==
    /\ pc = "done" /\ err = <<>>
    /\ iter.n >= 3 /\ iter.depth = 2

\* ------------------------------------------------------------------------
\* C6
\* ------------------------------------------------------------------------

\* C6: when the parse of an ssend or sedit invocation raises, after any
\* number of dispatched flags, no send and no edit of the payload is made;
\* the invocation makes exactly one platform call, the report to the
\* originating channel: "Error: <text>" for a CommandError, text opening
\* with "An unknown error occured" otherwise.
C6_SpeculativeParse ==
    iter.raised =>
        /\ HandlerCalls = {}
        /\ Len(outbound) <= 1
        /\ pc = "done" =>
              /\ Len(outbound) = 1
              /\ outbound[1].call = "send"
              /\ outbound[1].to = "origin"
              /\ outbound[1].options = EmptyOptions
              /\ IF err[1].kind = "CommandError"
                 THEN outbound[1].content = "Error: " \o err[1].response
                 ELSE StartsWith(outbound[1].content, "An unknown error occured")

\* a parse that had appended an attachment raised and was reported
C6_Witness ==
    /\ pc = "done" /\ iter.raised /\ iter.n >= 2
    /\ Files(options) # <<>>
    /\ Len(outbound) = 1

\* ------------------------------------------------------------------------
\* C7
\* ------------------------------------------------------------------------

\* the index of the first double quote at or after i that no backslash
\* escapes, -1 when there is none
RECURSIVE ClosingQuote(_, _)
ClosingQuote(s, i) ==
    IF i >= Len(s) THEN -1
    ELSE IF SubSeq(s, i + 1, i + 1) = "\\" THEN ClosingQuote(s, i + 2)
    ELSE IF SubSeq(s, i + 1, i + 1) = "\"" THEN i
    ELSE ClosingQuote(s, i + 1)

\* C7: when the trimmed text opens with a double quote and has an unescaped
\* closing quote, the remainder readNextArg returns is the text after the
\* closing quote, give or take the white space around it, whatever
\* character follows the quote.
C7_QuotedRemainder ==
    (tok # <<>> /\ StartsWith(Trim(text), "\"") /\ ClosingQuote(Trim(text), 1) >= 0)
    => /\ tok[1].ok
       /\ Trim(tok[1].remainder)
            = Trim(Substr(Trim(text), ClosingQuote(Trim(text), 1) + 1))

\* ------------------------------------------------------------------------
\* C8
\* ------------------------------------------------------------------------

\* the dispatched message-level actions that set the text content and had
\* what they read at hand
ContentSetters ==
    { i \in DOMAIN trail :
        /\ trail[i].depth = 1
        /\ \/ trail[i].handler \in {"insert", "rest"}
           \/ trail[i].handler = "content" /\ trail[i].handed # "" }

\* C8: in an edit parse, dispatching insert together with another action
\* that claims Content (content, rest, or insert again), in either order,
\* fails with "Content set more than once".
C8_InsertClaimsContent ==
    (/\ original # <<>>
     /\ \E i \in ContentSetters : trail[i].handler = "insert"
     /\ Cardinality(ContentSetters) >= 2)
    => /\ err = <<CommandError("Content set more than once")>>
       /\ NoPayload

\* ------------------------------------------------------------------------
\* C9
\* ------------------------------------------------------------------------

\* the arguments of the attachment flags dispatched so far, in order
RECURSIVE AttachmentArgs(_)
AttachmentArgs(n) ==
    IF n = 0 THEN <<>>
    ELSE IF trail[n].depth = 1 /\ trail[n].handler = "attttachment" /\ ~trail[n].raised
         THEN Append(AttachmentArgs(n - 1), readNextArg(trail[n].handed).arg)
         ELSE AttachmentArgs(n - 1)

\* C9: throughout a parse, and in the payload handed to send or edit, the
\* files are the arguments of the attachment flags dispatched so far, in
\* order, duplicates kept; no other action drops one.
C9_AttachmentsAccumulate ==
    /\ (pc \in {"parse", "deliver"} \/ (pc = "done" /\ ~iter.raised))
          => Files(options) = AttachmentArgs(Len(trail))
    /\ \A i \in HandlerCalls : Files(outbound[i].options) = AttachmentArgs(Len(trail))

\* ------------------------------------------------------------------------
\* C10
\* ------------------------------------------------------------------------

\* the embed time flag was just dispatched for the first time in this
\* parse, with an argument to read
TimeDispatched ==
    /\ RanHandler /\ iter.depth = 2 /\ iter.handler = "time"
    /\ iter.handed # ""
    /\ "Embed timestamp" \notin ClaimedEarlier

\* text of four decimal digits, the calendar year a Date is built from
IsYear(a) ==
    Len(a) = 4 /\ \A i \in 1..4 : SubSeq(a, i, i) \in Range(<<"0", "1", "2",
                                       "3", "4", "5", "6", "7", "8", "9">>)

\* C10: the time flag sets the timestamp to the current instant for "now"
\* in any letter case, to the instant the argument denotes when it parses
\* as a date, and otherwise raises CommandError
\* "Couldn't parse time "<argument>"" and leaves the timestamp unset.
C10_TimeParsing ==
    TimeDispatched =>
        LET a == LastArgument
            stamp == TheEmbed([options |-> options]).timestamp
        IN  IF a \in {"now", "Now", "NOW", "NoW", "nOW", "noW", "nOw", "NOw"}
            THEN ~iter.raised /\ stamp = <<ToString(Now) \o "-01-01T00:00:00.000Z">>
            ELSE IF IsYear(a)
            THEN ~iter.raised /\ stamp = <<a \o "-01-01T00:00:00.000Z">>
            ELSE /\ err = <<CommandError("Couldn't parse time \"" \o a \o "\"")>>
                 /\ stamp = <<>>

\* ------------------------------------------------------------------------
\* C11
\* ------------------------------------------------------------------------

\* the argument text the first invocation's handler gives the parse
OwnArgs ==
    IF cmd = "ssend" THEN SsendPrelude(text, "text").args
    ELSE SeditPrelude(text, "text").args

\* an invocation whose parse has returned or raised has the payload, or the
\* error, of the parse of the same argument text and original message run
\* with nothing else going on; a duplicate error names a label of its own
SameAsAlone(at, d, args, orig, c, o, e, claims, calls) ==
    LET alone == ParseAlone(args, orig) IN
    /\ at = "deliver" =>
          /\ alone.error = <<>>
          /\ c = alone.content /\ o = alone.options
    /\ (at \in {"catch", "done"} /\ d >= 1) =>
          /\ e # <<>>
          /\ e = alone.error
    /\ \A i \in DOMAIN calls :
          calls[i].by = "handler" =>
              /\ calls[i].content = alone.content
              /\ calls[i].options = alone.options
    /\ \A l \in {"Content", "Embed content", "Embed title", "Embed footer",
                  "Embed footer icon", "Embed color"} :
          e = <<CommandError(l \o " set more than once")>> => l \in claims

StatedMessageFlags ==
    {"content", "txt", "c", "att", "f", "attttachment", "embed", "rest"}
    \cup (IF original # <<>> THEN {"insert", "ins"} ELSE {})

\* C12: at top level a flag-shaped token runs an action exactly when its
\* name is one of content, txt, c, att, f, attttachment, embed, rest, or,
\* when editing, insert, ins; every other name raises CommandError
\* "Argument <name> is unknown/unexpected here" and the parse returns no
\* payload.
C12_MessageFlagSet ==
    (iter.n > 0 /\ iter.depth = 1 /\ iter.shaped)
    => IF iter.name \in StatedMessageFlags
       THEN iter.handler # ""
       ELSE /\ iter.handler = ""
            /\ err = <<CommandError("Argument " \o iter.name
                                     \o " is unknown/unexpected here")>>
            /\ NoPayload

\* ------------------------------------------------------------------------
\* C13
\* ------------------------------------------------------------------------

\* space, CR and LF
Blank(c) == c \in {" ", "\r", "\n"}

\* the length of the longest leading run of s without space, CR or LF
LeadingRunLength(s) ==
    CHOOSE k \in 0..Len(s) :
        /\ \A i \in 1..k : ~Blank(SubSeq(s, i, i))
        /\ k < Len(s) => Blank(SubSeq(s, k + 1, k + 1))

\* the characters of s that are not white space, in order
RECURSIVE Visible(_)
Visible(s) ==
    IF s = "" THEN ""
    ELSE (IF Head(s) \in {" ", "\t", "\r", "\n"} THEN "" ELSE Head(s))
         \o Visible(Tail(s))

\* C13: for text that, trimmed, is non-empty and does not open with a double
\* quote, readNextArg returns as arg the longest leading run of characters
\* other than space, CR and LF, and as remainder the rest of the text with
\* the white space around it removed, so that arg followed by remainder has
\* every character of the text that is not white space; for empty text and
\* text of white space only it raises CommandError "Not enough arguments".
C13_BareArgument ==
    tok # <<>> =>
        LET t == Trim(text)
            k == LeadingRunLength(t)
        IN  IF t = ""
            THEN tok[1] = [ok |-> FALSE, error |-> CommandError("Not enough arguments")]
            ELSE ~StartsWith(t, "\"") =>
                    /\ tok[1].ok
                    /\ tok[1].arg = SubSeq(t, 1, k)
                    /\ tok[1].remainder = Trim(SubSeq(t, k + 1, Len(t)))
                    /\ Visible(tok[1].arg \o tok[1].remainder) = Visible(text)

\* a bare argument was cut at a line feed, and more white space than the
\* one separator was dropped before the remainder
C13_Witness ==
    /\ tok # <<>> /\ tok[1].ok
    /\ ~StartsWith(Trim(text), "\"")
    /\ tok[1].remainder # ""
    /\ SubSeq(Trim(text), Len(tok[1].arg) + 1, Len(tok[1].arg) + 1) = "\n"
    /\ Len(tok[1].arg) + Len(tok[1].remainder) + 1 < Len(text)

\* ------------------------------------------------------------------------
\* C14
\* ------------------------------------------------------------------------

\* the length of the longest run of s without a line break that starts at
\* position 0
FirstLineLength(s) ==
    CHOOSE k \in 0..Len(s) :
        /\ \A i \in 1..k : SubSeq(s, i, i) \notin {"\r", "\n"}
        /\ k < Len(s) => SubSeq(s, k + 1, k + 1) \in {"\r", "\n"}

\* C14: for non-empty text, text opening with line breaks included,
\* readNextLine returns as line the longest run without a line break that
\* starts at position 0 and as remainder the rest of the text after that
\* run, trimmed, so that line and remainder together have every character of
\* the text that is not white space, once; for empty text it raises
\* CommandError "Not enough lines".
C14_FirstLine ==
    tok # <<>> =>
        LET k == FirstLineLength(text) IN
        IF text = ""
        THEN tok[1] = [ok |-> FALSE, error |-> CommandError("Not enough lines")]
        ELSE /\ tok[1].ok
             /\ tok[1].line = SubSeq(text, 1, k)
             /\ tok[1].remainder = Trim(SubSeq(text, k + 1, Len(text)))
             /\ Visible(tok[1].line \o tok[1].remainder) = Visible(text)

\* ------------------------------------------------------------------------
\* C15
\* ------------------------------------------------------------------------

\* the platform rejected the lookup of a channel or of the message to edit
LookupFailed == lookup.channel = "throw" \/ lookup.message = "rejected"

\* C15: when the platform fails to resolve the channel a command names, or
\* the message sedit is to edit, the invocation ends with a CommandError
\* "Couldn't find ... with id ...", reported as "Error: Couldn't find ...",
\* never with the report "An unknown error occured", and the handler makes no
\* send and no edit.
C15_UnresolvedReference ==
    LookupFailed =>
        /\ pc \in {"catch", "done"}
        /\ err # <<>>
        /\ err[1].kind = "CommandError"
        /\ StartsWith(err[1].response, "Couldn't find ")
        /\ HandlerCalls = {}
        /\ pc = "done" =>
              /\ Len(outbound) = 1
              /\ StartsWith(outbound[1].content, "Error: Couldn't find ")

\* ------------------------------------------------------------------------
\* C16
\* ------------------------------------------------------------------------

\* what a backslash followed by c stands for
EscapeOf(c) ==
    IF c = "r" THEN "\r"
    ELSE IF c = "n" THEN "\n"
    ELSE IF c = "t" THEN "\t"
    ELSE c

\* the text s denotes from (0-based) index i up to the first double quote no
\* backslash escapes, or up to its end: a backslash and the character after
\* it are taken together
RECURSIVE Resolved(_, _)
Resolved(s, i) ==
    IF i >= Len(s) THEN ""
    ELSE LET c == SubSeq(s, i + 1, i + 1) IN
         IF c = "\"" THEN ""
         ELSE IF c = "\\"
         THEN IF i + 1 >= Len(s) THEN ""
              ELSE EscapeOf(SubSeq(s, i + 2, i + 2)) \o Resolved(s, i + 2)
         ELSE c \o Resolved(s, i + 1)

\* C16: for text that, trimmed, opens with a double quote, readNextArg
\* returns as arg the characters from after the opening quote up to the
\* first unescaped double quote, or to the end of the text when there is
\* none (the remainder then being empty), with backslash r, n, t and
\* backslash standing for CR, LF, TAB and backslash, any other escaped
\* character for itself, and every unescaped character copied.
C16_QuotedArgument ==
    (tok # <<>> /\ StartsWith(Trim(text), "\"")) =>
        /\ tok[1].ok
        /\ tok[1].arg = Resolved(Trim(text), 1)
        /\ ClosingQuote(Trim(text), 1) < 0 => tok[1].remainder = ""

\* an escaped n inside a closed quoted argument was read as a line feed
C16_Witness ==
    /\ tok # <<>> /\ tok[1].ok
    /\ text = "\"\\n\""
    /\ tok[1].arg = "\n"

\* ------------------------------------------------------------------------
\* C17
\* ------------------------------------------------------------------------

\* the embed flag was dispatched and its sub-parse has returned
EmbedCompleted ==
    /\ \E i \in DOMAIN trail : trail[i].depth = 1 /\ trail[i].handler = "embed"
    /\ depth <= 1
    /\ pc \in {"parse", "deliver"} \/ (pc = "done" /\ err = <<>>)

\* the embed supplied before the embed flag: the first embed of the
\* original message once insert has been dispatched, else the empty one
SuppliedEmbed ==
    IF /\ \E i \in DOMAIN trail : trail[i].depth = 1 /\ trail[i].handler = "insert"
       /\ original # <<>>
       /\ original[1].embeds # <<>>
    THEN original[1].embeds[1]
    ELSE EmptyEmbed

\* the fields of an embed, those of footer and author taken one by one
FieldsOf(e) ==
    [title |-> e.title, description |-> e.description, url |-> e.url,
     color |-> e.color, timestamp |-> e.timestamp,
     footerText |-> IF e.footer = <<>> THEN <<>> ELSE <<e.footer[1].text>>,
     footerIcon |-> IF e.footer = <<>> THEN <<>> ELSE e.footer[1].icon_url,
     authorName |-> IF e.author = <<>> THEN <<>> ELSE <<e.author[1].name>>,
     authorIcon |-> IF e.author = <<>> THEN <<>> ELSE e.author[1].icon_url]

\* the fields an embed flag names and the value it gives each, for the
\* cursor it was handed
GivenBy(h, handed) ==
    LET a == readNextArg(handed).arg IN
    CASE h = "title" -> [title |-> <<a>>]
      [] h = "content" -> [description |-> <<a>>]
      [] h = "rest" -> [description |-> <<handed>>]
      [] h = "url" -> [url |-> <<parseUrl(a)>>]
      [] h = "color" -> [color |-> <<parseInt16(a)>>]
      [] h = "time" -> [timestamp |-> <<ToISOString(TimeToDate(a)).iso>>]
      [] h = "footer" -> [footerText |-> <<a>>]
      [] h = "footericon" -> [footerIcon |-> <<a>>]
      [] h = "footerme" -> [footerText |-> <<AuthorDisplayName>>,
                            footerIcon |-> <<AuthorAvatarURL>>]
      [] h = "author" -> [authorName |-> <<a>>]
      [] h = "authoricon" -> [authorIcon |-> <<a>>]
      [] h = "authorme" -> [authorName |-> <<AuthorDisplayName>>,
                            authorIcon |-> <<AuthorAvatarURL>>]

\* the fields of the supplied embed, each field that one of the first n
\* dispatched actions names as an embed flag taking the value the flag gives
RECURSIVE FieldsExpected(_)
FieldsExpected(n) ==
    IF n = 0 THEN FieldsOf(SuppliedEmbed)
    ELSE IF trail[n].depth = 2
         THEN GivenBy(trail[n].handler, trail[n].handed) @@ FieldsExpected(n - 1)
         ELSE FieldsExpected(n - 1)

\* C17: once the embed flag has fired and its sub-parse has returned, the
\* one embed of the options has, in every field no dispatched embed flag
\* names, the value of the embed supplied before (the original message's
\* first embed after insert, the empty embed otherwise), and in every field
\* a dispatched embed flag names, the value that flag gives.
C17_EmbedSeedAndFrame ==
    EmbedCompleted =>
        /\ options.embeds # <<>> /\ Len(options.embeds[1]) = 1
        /\ FieldsOf(TheEmbed([options |-> options])) = FieldsExpected(Len(trail))

\* an edit inserted the original message, whose embed has a title and a
\* footer, and gave a new title: the footer is the old one
C17_Witness ==
    /\ pc = "deliver" /\ original # <<>>
    /\ \E i \in DOMAIN trail : trail[i].depth = 1 /\ trail[i].handler = "insert"
    /\ \E i \in DOMAIN trail : trail[i].depth = 2 /\ trail[i].handler = "title"
    /\ TheEmbed([options |-> options]).title = <<"t">>
    /\ TheEmbed([options |-> options]).footer = OldEmbed.footer

\* ------------------------------------------------------------------------
\* C18
\* ------------------------------------------------------------------------

AllLabels ==
    {"Content", "Embed content", "Embed title", "Embed footer",
     "Embed footer icon", "Embed author", "Embed author icon",
     "Embed timestamp", "Embed url", "Embed color"}

\* the dispatched actions of table d that set its text content by a flag
\* or by trailing text
TextSetters(d) ==
    { i \in DOMAIN trail : trail[i].depth = d /\ trail[i].handler \in {"content", "rest"} }

\* the text such an action sets
TextSet(i) ==
    IF trail[i].handler = "rest" THEN trail[i].handed
    ELSE readNextArg(trail[i].handed).arg

\* the last dispatched action is the first of the embed table to set the
\* description, with an argument to read if it reads one
FirstDescription ==
    /\ RanHandler /\ iter.depth = 2 /\ iter.handler \in {"content", "rest"}
    /\ TextSetters(2) = {Len(trail)}
    /\ iter.handler = "content" => iter.handed # ""

\* C18: a parse raises "<label> set more than once" only for a label an
\* earlier dispatched action of the same parse claimed; the message content
\* and the embed description are claimed under two labels, so the first
\* action to set the description succeeds whatever set the message
\* content, and both values are then set.
C18_NoFalseDuplicate ==
    /\ err # <<>> =>
          \A l \in AllLabels :
              err = <<CommandError(l \o " set more than once")>> => l \in ClaimedEarlier
    /\ FirstDescription =>
          /\ ~iter.raised
          /\ TheEmbed([options |-> options]).description = <<TextSet(Len(trail))>>
          /\ "Embed content" \in alreadySet
          /\ \A i \in TextSetters(1) :
                (~\E j \in DOMAIN trail : trail[j].handler = "insert") =>
                    /\ content = TextSet(i)
                    /\ "Content" \in alreadySet

\* -c a -embed -c b: the content is a and the description b
C18_Witness ==
    /\ pc = "deliver" /\ err = <<>>
    /\ TextSetters(1) # {} /\ TextSetters(2) # {}
    /\ content = "a"
    /\ TheEmbed([options |-> options]).description = <<"b">>

\* ------------------------------------------------------------------------
\* C19
\* ------------------------------------------------------------------------

\* the dispatches of the top-level embed flag so far
EmbedFirings ==
    { i \in DOMAIN trail : trail[i].depth = 1 /\ trail[i].handler = "embed" }

\* the flags only the message table defines
MessageOnlyFlags == {"att", "f", "attttachment", "insert", "ins", "embed"}

\* C19: the top-level embed flag is dispatched at most once in a parse;
\* every iteration after it is one of the nested loop, on the embed table;
\* the nested loop returns only with the cursor empty, so the top-level
\* loop makes no further iteration; and a flag only the message table
\* defines (att, f, attttachment, insert, ins, embed), met after -embed,
\* raises CommandError "Argument <name> is unknown/unexpected here" and is
\* not applied to the message.
C19_EmbedTakesTheRest ==
    /\ Cardinality(EmbedFirings) <= 1
    /\ \A i \in EmbedFirings :
          /\ \A j \in DOMAIN trail : j > i => trail[j].depth = 2
          /\ iter.depth = 1 => (iter.handler = "embed" /\ i = Len(trail))
          /\ (depth <= 1 /\ pc \in {"parse", "deliver"}) => remainder = ""
    /\ (iter.n > 0 /\ iter.depth = 2 /\ iter.shaped /\ iter.name \in MessageOnlyFlags) =>
          /\ err = <<CommandError("Argument " \o iter.name
                                   \o " is unknown/unexpected here")>>
          /\ iter.handler = ""
          /\ NoPayload

\* an attachment flag met after -embed, following an embed flag, was refused
C19_Witness ==
    /\ pc = "catch" /\ iter.n >= 3
    /\ iter.depth = 2 /\ iter.name = "f"
    /\ EmbedFirings # {}
    /\ Files(options) = <<>>

\* ------------------------------------------------------------------------
\* C20
\* ------------------------------------------------------------------------

\* the first word of s, up to its first space, without the first two
\* characters (the prefix)
WordAfterPrefix(s) ==
    LET ends == { k \in 0..Len(s) :
                    /\ \A i \in 1..k : SubSeq(s, i, i) # " "
                    /\ k < Len(s) => SubSeq(s, k + 1, k + 1) = " " }
        k == CHOOSE e \in ends : TRUE
    IN  IF k <= 2 THEN "" ELSE SubSeq(s, 3, k)

\* what the gate asks of a message event
MayRun(ev) ==
    /\ ~ev.bot
    /\ Len(ev.content) >= 2 /\ SubSeq(ev.content, 1, 2) = "p!"
    /\ WordAfterPrefix(ev.content)
          \in {"help", "send", "sendc", "sendu", "ssend", "sedit", "news"}
    /\ ev.member = "found"
    /\ ev.roles \cap {"r1", "r2"} # {}

\* a handler was called, or has done something
HandlerStarted ==
    \/ gate = "admitted"
    \/ pc \in {"handler", "parse", "deliver"}
    \/ iter.n > 0
    \/ HandlerCalls # {}

\* C20: for every message event, a command handler is called only if the
\* author is no bot, the text starts with the prefix, its first word less
\* the prefix names a command of the library, and the author's member
\* record in the role server holds a role of the (default) whitelist, the
\* handler then being that command's, given the text after the command
\* word; in every other case no handler is called and no send or edit is
\* made by a handler.
C20_AuthorizationGate ==
    /\ HandlerStarted =>
          /\ MayRun(event)
          /\ cmd = WordAfterPrefix(event.content)
    /\ (pc # "event" /\ ~MayRun(event)) =>
          /\ gate \in {"ignored", "failed"}
          /\ cmd = "none"
          /\ HandlerCalls = {}
          /\ \A i \in DOMAIN outbound : outbound[i].by = "listener"

\* an author holding a whitelisted role had ssend run and its message sent
C20_Witness ==
    /\ gate = "admitted" /\ cmd = "ssend"
    /\ pc = "done" /\ err = <<>>
    /\ HandlerCalls # {}
    /\ event.roles = {"r1", "r9"}

====
